---------------------------- MODULE Spec2Model ----------------------------
(***************************************************************************)
(* Layout controllers of chartjs-chart-graph.                              *)
(*                                                                         *)
(* ForceDirectedGraphController (src/src/controllers/forceDirected.ts)     *)
(* drives a d3-force simulation over the parsed nodes of a dataset and     *)
(* copies the simulation's positions, rescaled to [-1, 1], back into the   *)
(* parsed nodes on every tick.                                             *)
(*                                                                         *)
(* JavaScript values are modelled as records [k, n, d]:                    *)
(*   k = "num"   the exact rational n/d (d > 0, lowest terms)              *)
(*   k = "inf"   +Infinity (n = 1) or -Infinity (n = -1)                   *)
(*   k = "nan"   NaN                                                       *)
(*   k = "null"  null                                                      *)
(*   k = "undef" undefined, or the property is absent                      *)
(* Floating point rounding is not modelled: arithmetic is exact.           *)
(***************************************************************************)
EXTENDS Integers, Sequences, FiniteSets, TLC

(***************************************************************************)
(* Bounds of the model.                                                    *)
(***************************************************************************)
\* largest number of nodes in a dataset
MaxNodes == 2
\* the simulation moves nodes on the grid 0..MaxCoord
MaxCoord == 1
\* largest configured simulation.initialIterations
MaxInit == 1
\* number of ticks after which alpha has decayed below alphaMin
AlphaSteps == 2
\* largest number of animation frame callbacks waiting at once
MaxPending == 1
\* largest number of nodes in a tree dataset
MaxTreeNodes == 4
\* largest number of nodes the position copy is run on by itself
MaxRaw == 3

VARIABLES
    config,          \* this._config.simulation
    parsed,          \* this._cachedMeta._parsed
    parsedEdges,     \* this._cachedMeta._parsedEdges
    simulation,      \* this._simulation (d3-force)
    handed,          \* the array the last handler passed to this._simulation.nodes
    copySrc,         \* which SimulationNodes the last handler's _copyPosition read
    pendingFrames,   \* requestAnimationFrame callbacks not yet run
    calls,           \* the handler that ran last and the calls it made, in order
    tree,            \* this._config.tree (dendogram and tree controllers)
    dsTree,          \* this.getDataset().tree
    root             \* this._cachedMeta.root (d3-hierarchy)

\* the state only the dendogram and tree controllers have
treeVars == <<tree, dsTree, root>>

vars == <<config, parsed, parsedEdges, simulation, handed, copySrc,
          pendingFrames, calls, tree, dsTree, root>>

(***************************************************************************)
(* JavaScript numbers.                                                     *)
(***************************************************************************)
Abs(i) == IF i < 0 THEN -i ELSE i

RECURSIVE Gcd(_, _)
Gcd(a, b) == IF b = 0 THEN a ELSE Gcd(b, a % b)

\* the number n/d in lowest terms (an integer is already in lowest terms)
Frac(n, d) ==
    IF d = 1 THEN [k |-> "num", n |-> n, d |-> 1]
    ELSE LET g == Gcd(Abs(n), Abs(d))
             s == IF d < 0 THEN -1 ELSE 1
         IN  [k |-> "num", n |-> (s * n) \div g, d |-> (s * d) \div g]

Num(i) == [k |-> "num", n |-> i, d |-> 1]
NaN == [k |-> "nan", n |-> 0, d |-> 1]
Null == [k |-> "null", n |-> 0, d |-> 1]
Undef == [k |-> "undef", n |-> 0, d |-> 1]
PosInf == [k |-> "inf", n |-> 1, d |-> 1]
NegInf == [k |-> "inf", n |-> -1, d |-> 1]

\* ToNumber: null is 0, undefined is NaN
ToNum(v) ==
    CASE v.k = "null" -> Num(0)
      [] v.k = "undef" -> NaN
      [] OTHER -> v

\* isNaN(v), as d3-force applies it to x, y, vx, vy
IsNaN(v) == ToNum(v).k = "nan"

\* v == null (null or undefined)
IsNullish(v) == v.k \in {"null", "undef"}

Sign(i) == IF i > 0 THEN 1 ELSE IF i < 0 THEN -1 ELSE 0

\* a < b (two finite numbers first, then the general case)
Less(a0, b0) ==
    IF a0.k = "num" /\ b0.k = "num" THEN a0.n * b0.d < b0.n * a0.d
    ELSE LET a == ToNum(a0)
             b == ToNum(b0)
         IN  CASE a.k = "nan" \/ b.k = "nan" -> FALSE
               [] a.k = "inf" /\ b.k = "inf" -> a.n < b.n
               [] a.k = "inf" -> a.n < 0
               [] b.k = "inf" -> b.n > 0
               [] OTHER -> a.n * b.d < b.n * a.d

\* a - b
Sub(a0, b0) ==
    IF a0.k = "num" /\ b0.k = "num"
    THEN Frac(a0.n * b0.d - b0.n * a0.d, a0.d * b0.d)
    ELSE LET a == ToNum(a0)
             b == ToNum(b0)
         IN  CASE a.k = "nan" \/ b.k = "nan" -> NaN
               [] a.k = "inf" /\ b.k = "inf" -> IF a.n = b.n THEN NaN ELSE a
               [] a.k = "inf" -> a
               [] b.k = "inf" -> [b EXCEPT !.n = -b.n]
               [] OTHER -> Frac(a.n * b.d - b.n * a.d, a.d * b.d)

\* a * b
Mul(a0, b0) ==
    IF a0.k = "num" /\ b0.k = "num"
    THEN Frac(a0.n * b0.n, a0.d * b0.d)
    ELSE LET a == ToNum(a0)
             b == ToNum(b0)
         IN  CASE a.k = "nan" \/ b.k = "nan" -> NaN
               [] a.k = "inf" \/ b.k = "inf" ->
                     IF Sign(a.n) * Sign(b.n) = 0 THEN NaN
                     ELSE [k |-> "inf", n |-> Sign(a.n) * Sign(b.n), d |-> 1]
               [] OTHER -> Frac(a.n * b.n, a.d * b.d)

\* a / b (0/0 is NaN, any other division by 0 an infinity)
Div(a0, b0) ==
    IF a0.k = "num" /\ b0.k = "num" /\ b0.n # 0
    THEN Frac(a0.n * b0.d, a0.d * b0.n)
    ELSE LET a == ToNum(a0)
             b == ToNum(b0)
         IN  CASE a.k = "nan" \/ b.k = "nan" -> NaN
               [] a.k = "inf" /\ b.k = "inf" -> NaN
               [] a.k = "inf" ->
                     [k |-> "inf", n |-> a.n * (IF b.n < 0 THEN -1 ELSE 1), d |-> 1]
               [] b.k = "inf" -> Num(0)
               [] b.n = 0 -> IF a.n = 0 THEN NaN
                             ELSE [k |-> "inf", n |-> Sign(a.n), d |-> 1]
               [] OTHER -> Frac(a.n * b.d, a.d * b.n)


(***************************************************************************)
(* Data: parsed nodes, SimulationNodes and references between them.        *)
(*                                                                         *)
(* A SimulationNode is an object shared by reference between a parsed      *)
(* node (node._sim) and the simulation's node array.  A reference is       *)
(*   kind = "none"  node._sim is undefined                                 *)
(*   kind = "cur"   element idx of the simulation's current node array     *)
(*   kind = "old"   an object of an array the simulation has replaced; no  *)
(*                  one mutates it any more, so it is held by value (obj)  *)
(*   kind = "new"   inside resetLayout/resyncLayout: element idx of the    *)
(*                  array being built                                      *)
(* Indices (index, idx, source, target) are 0-based as in the source.      *)
(***************************************************************************)
\* the coordinates a tick may gather every node on: the ends of the grid
Coords == {0, MaxCoord}

NoObj == [x |-> Undef, y |-> Undef, vx |-> Undef, vy |-> Undef, index |-> -1]
NoRef == [kind |-> "none", idx |-> -1, obj |-> NoObj]
Ref(kind, i) == [kind |-> kind, idx |-> i, obj |-> NoObj]

\* node._sim
Deref(ref, simNodes) ==
    IF ref.kind = "cur" THEN simNodes[ref.idx + 1] ELSE ref.obj

\* a node as the parser leaves it: no _sim, no reset flag
Node(x, y, vx, vy) ==
    [x |-> x, y |-> y, vx |-> vx, vy |-> vy, reset |-> FALSE, sim |-> NoRef]

Edge(s, t) == [source |-> s, target |-> t]

\* an option that is not set
Absent == "undefined"

\* tree options that are not there (undefined or null)
NoOptions == [defined |-> FALSE, mode |-> Absent, orientation |-> Absent]

\* this._cachedMeta.root before the first resyncLayout
NoRoot == [index |-> -1, nodes |-> <<>>]

\* the dataset the force configurations other than the defaults are run on
SingleDataset == [nodes |-> <<Node(Undef, Undef, Undef, Undef)>>, edges |-> <<>>]

\* the datasets the model is run on
AllDatasets ==
    { SingleDataset,
      [nodes |-> <<Node(Num(0), Num(0), Undef, Undef),
                   Node(Undef, Undef, Undef, Undef)>>,
       edges |-> <<Edge(0, 1)>>],
      [nodes |-> <<Node(Null, Null, Undef, Undef),
                   Node(Num(1), Num(0), Num(1), Num(1))>>,
       edges |-> <<Edge(1, 0)>>],
      [nodes |-> <<Node(Null, Num(1), Undef, Undef),
                   Node(Num(1), Num(1), Num(1), Undef)>>,
       edges |-> <<>>],
      [nodes |-> <<Node(Undef, Undef, Undef, Undef),
                   Node(Num(1), Num(0), Undef, Undef),
                   Node(Undef, Undef, Undef, Undef)>>,
       edges |-> <<Edge(0, 1), Edge(0, 2)>>] }

Datasets == { ds \in AllDatasets : Len(ds.nodes) <= MaxNodes }

(***************************************************************************)
(* _copyPosition                                                           *)
(***************************************************************************)
NoExtent == [minX |-> PosInf, maxX |-> NegInf, minY |-> PosInf, maxY |-> NegInf]

\* the reduce callback
MinMaxStep(acc, v, simNodes) ==
    IF v.sim.kind = "none" THEN acc
    ELSE LET s == Deref(v.sim, simNodes)
             a1 == IF Less(s.x, acc.minX) THEN [acc EXCEPT !.minX = s.x] ELSE acc
             a2 == IF Less(a1.maxX, s.x) THEN [a1 EXCEPT !.maxX = s.x] ELSE a1
             a3 == IF Less(s.y, a2.minY) THEN [a2 EXCEPT !.minY = s.y] ELSE a2
             a4 == IF Less(a3.maxY, s.y) THEN [a3 EXCEPT !.maxY = s.y] ELSE a3
         IN  a4

RECURSIVE MinMaxFrom(_, _, _, _)
MinMaxFrom(nodes, simNodes, i, acc) ==
    IF i > Len(nodes) THEN acc
    ELSE MinMaxFrom(nodes, simNodes, i + 1, MinMaxStep(acc, nodes[i], simNodes))

MinMax(nodes, simNodes) == MinMaxFrom(nodes, simNodes, 1, NoExtent)

\* a rescale onto [0, 2]: the final - 1 is forgotten
RescaleNoShift(v, lo, hi) == Mul(Div(Sub(v, lo), Sub(hi, lo)), Num(2))

\* rescaleX, rescaleY
Rescale(v, lo, hi) == Sub(Mul(Div(Sub(v, lo), Sub(hi, lo)), Num(2)), Num(1))

\* a _copyPosition whose forEach writes x and forgets y
CopyPositionOnlyX(nodes, simNodes) ==
    LET minmax == MinMax(nodes, simNodes)
    IN  [i \in 1..Len(nodes) |->
            IF nodes[i].sim.kind = "none" THEN nodes[i]
            ELSE [nodes[i] EXCEPT
                    !.x = Rescale(Deref(nodes[i].sim, simNodes).x,
                                  minmax.minX, minmax.maxX)]]

\* the nodes after _copyPosition (the elements' pixel positions are the host's)
CopyPosition(nodes, simNodes) ==
    LET minmax == MinMax(nodes, simNodes)
    IN  [i \in 1..Len(nodes) |->
            IF nodes[i].sim.kind = "none" THEN nodes[i]
            ELSE LET s == Deref(nodes[i].sim, simNodes)
                 IN  [nodes[i] EXCEPT
                        !.x = Rescale(s.x, minmax.minX, minmax.maxX),
                        !.y = Rescale(s.y, minmax.minY, minmax.maxY)]]

\* which SimulationNodes a _copyPosition reads, per node
CopySources(nodes) == [i \in 1..Len(nodes) |-> nodes[i].sim.kind]

(***************************************************************************)
(* d3-force, as the controller uses it.                                    *)
(*   alpha is counted in decay steps left before it is below alphaMin:     *)
(*   alpha(1) sets it to AlphaSteps, every tick takes one off.             *)
(***************************************************************************)
ForceKeys == {"center", "collide", "link", "manyBody", "x", "y", "radial"}

\* forceSimulation(): no nodes, alpha 1, the timer running
ForceSimulation ==
    [nodes |-> <<>>, alpha |-> AlphaSteps, running |-> TRUE,
     forces |-> [key \in {} |-> "defaults"], links |-> <<>>]

\* simulation.stop()
SimStop(s) == [s EXCEPT !.running = FALSE]

\* simulation.restart()
SimRestart(s) == [s EXCEPT !.running = TRUE]

\* simulation.alpha(1)
SimAlphaMax(s) == [s EXCEPT !.alpha = AlphaSteps]

\* d3's initial placement of node i (phyllotaxis: radius 10 * sqrt(0.5 + i),
\* angle i * pi * (3 - sqrt(5))), rounded to integers
InitialPos(i) ==
    CASE i = 0 -> <<7, 0>>
      [] i = 1 -> <<-9, 8>>
      [] i = 2 -> <<1, -16>>
      [] i = 3 -> <<11, 15>>
      [] OTHER -> <<-21 - i, -i>>

\* initializeNodes, per node
InitializeNode(n, i) ==
    LET placed == IF IsNaN(n.x) \/ IsNaN(n.y)
                  THEN [n EXCEPT !.x = Num(InitialPos(i)[1]),
                                 !.y = Num(InitialPos(i)[2])]
                  ELSE n
        moving == IF IsNaN(n.vx) \/ IsNaN(n.vy)
                  THEN [placed EXCEPT !.vx = Num(0), !.vy = Num(0)]
                  ELSE placed
    IN  [moving EXCEPT !.index = i]

\* simulation.nodes(nodes): the array replaces the old one; the link force
\* keeps the node objects its links were resolved to
SimNodes(s, nodes) ==
    [s EXCEPT !.nodes = [i \in 1..Len(nodes) |-> InitializeNode(nodes[i], i - 1)],
              !.links = [j \in 1..Len(s.links) |-> [s.links[j] EXCEPT !.gen = "old"]]]

\* link.links(links): source and target are resolved to the current node objects
LinkLinks(s, links) ==
    [s EXCEPT !.links = [j \in 1..Len(links) |->
        [source |-> links[j].source, target |-> links[j].target,
         index |-> j - 1, gen |-> "cur"]]]

\* a tick under which alpha does not decay
SimTickNoDecay(s, n, pos) ==
    [s EXCEPT !.nodes = [i \in 1..Len(s.nodes) |->
                            [s.nodes[i] EXCEPT !.x = Num(pos[i][1]),
                                               !.y = Num(pos[i][2]),
                                               !.vx = Num(0), !.vy = Num(0)]]]

\* simulation.tick(n): the forces move every node; pos[i] is where node i ends.
\* The controller never reads a SimulationNode's velocity: it is left at 0.
SimTick(s, n, pos) ==
    [s EXCEPT !.nodes = [i \in 1..Len(s.nodes) |->
                            [s.nodes[i] EXCEPT !.x = Num(pos[i][1]),
                                               !.y = Num(pos[i][2]),
                                               !.vx = Num(0), !.vy = Num(0)]],
              !.alpha = IF s.alpha > n THEN s.alpha - n ELSE 0]

\* alpha < alphaMin
Converged(s) == s.alpha = 0

\* where a tick may leave n nodes on one axis: all on one end of the grid, or
\* spread over the grid
AxisMoves(n) ==
    {[i \in 1..n |-> c] : c \in Coords}
        \cup {[i \in 1..n |-> (i - 1) % (MaxCoord + 1)]}

\* where a tick may leave n nodes
Moves(n) == {[i \in 1..n |-> <<fx[i], fy[i]>>] : fx \in AxisMoves(n), fy \in AxisMoves(n)}

(***************************************************************************)
(* ForceDirectedGraphController                                            *)
(***************************************************************************)
ForceOptions == {"false", "true", "options"}

\* defaults.datasets.simulation.forces
DefaultForces ==
    [key \in ForceKeys |->
        IF key \in {"center", "link", "manyBody"} THEN "true" ELSE "false"]

\* a constructor that attaches every force, whatever its option
AttachEveryForce(s, forces) ==
    [s EXCEPT !.forces =
        [key \in ForceKeys |->
            IF forces[key] = "options" THEN "configured" ELSE "defaults"]]

\* the constructor's forEach over the force keys: a force whose option is
\* falsy is skipped, any other is created, configured and attached
AttachForces(s, forces) ==
    [s EXCEPT !.forces =
        [key \in {k \in ForceKeys : forces[k] # "false"} |->
            IF forces[key] = "true" THEN "defaults" ELSE "configured"]]

\* the constructor: forceSimulation().on(...), the forces, stop()
Constructor(sim) == SimStop(AttachForces(ForceSimulation, sim.forces))

\* this._simulation.force('link')
HasLink(s) == "link" \in DOMAIN s.forces

\* the hooks of GraphController (super.resetLayout, super.resyncLayout,
\* super.stopLayout): they do nothing
SuperLayoutHook(nodes) == nodes

\* a map callback that ignores node.reset
ResetSimNodeIgnoresReset(node, i) ==
    [x |-> node.x, y |-> node.y, vx |-> node.vx, vy |-> node.vy, index |-> i]

\* a map callback whose test of node.reset is inverted
ResetSimNodeInverted(node, i) ==
    IF node.reset
    THEN [x |-> node.x, y |-> node.y, vx |-> node.vx, vy |-> node.vy, index |-> i]
    ELSE [x |-> Undef, y |-> Undef, vx |-> Undef, vy |-> Undef, index |-> i]

\* resetLayout's map callback: the SimulationNode built for node (index i)
ResetSimNode(node, i) ==
    IF ~node.reset
    THEN [x |-> node.x, y |-> node.y, vx |-> node.vx, vy |-> node.vy, index |-> i]
    ELSE [x |-> Undef, y |-> Undef, vx |-> Undef, vy |-> Undef, index |-> i]

\* a map callback that forgets node._sim = simNode
ResetNodeKeepsSim(node, i) == node

\* resetLayout's map callback: what it does to the node
ResetNode(node, i) == [node EXCEPT !.sim = Ref("new", i)]

\* a map callback that tests x twice and never deletes a null y
ResyncSimNodeKeepsNullY(node, i) ==
    [x |-> IF node.x.k = "null" THEN Undef ELSE node.x,
     y |-> node.y,
     vx |-> node.vx, vy |-> node.vy, index |-> i]

\* resyncLayout's map callback: the SimulationNode built for node (index i)
ResyncSimNode(node, i) ==
    [x |-> IF node.x.k = "null" THEN Undef ELSE node.x,
     y |-> IF node.y.k = "null" THEN Undef ELSE node.y,
     vx |-> node.vx, vy |-> node.vy, index |-> i]

\* a map callback that leaves node._sim as it was
ResyncNodeKeepsSim(node, i) ==
    LET simNode == ResyncSimNode(node, i)
    IN  [node EXCEPT !.reset = IF IsNullish(simNode.x) /\ IsNullish(simNode.y)
                               THEN TRUE ELSE node.reset]

\* resyncLayout's map callback: what it does to the node
ResyncNode(node, i) ==
    LET simNode == ResyncSimNode(node, i)
    IN  [node EXCEPT !.sim = Ref("new", i),
                     !.reset = IF IsNullish(simNode.x) /\ IsNullish(simNode.y)
                               THEN TRUE ELSE node.reset]

\* a resyncLayout that hands the parsed edges themselves to the link force,
\* which then initialises them (index, source and target resolved)
ResyncLinksShared(s, edges) ==
    [simulation |-> LinkLinks(s, edges), edges |-> LinkLinks(s, edges).links]

\* resyncLayout's link.links(edges.map(link => Object.assign({}, link))): the
\* link force initialises the copies, the parsed edges are left as they are
ResyncLinks(s, edges) ==
    [simulation |-> LinkLinks(s, edges), edges |-> edges]

\* the nodes once the simulation has taken the built array: a _sim set by the
\* map callback is an element of the current array, any other _sim is an
\* object of the array that was replaced
Adopt(nodes, oldSimNodes) ==
    [i \in 1..Len(nodes) |->
        CASE nodes[i].sim.kind = "new" ->
                [nodes[i] EXCEPT !.sim = Ref("cur", nodes[i].sim.idx)]
          [] nodes[i].sim.kind = "cur" ->
                [nodes[i] EXCEPT !.sim = [kind |-> "old", idx |-> nodes[i].sim.idx,
                                          obj |-> oldSimNodes[nodes[i].sim.idx + 1]]]
          [] OTHER -> nodes[i]]

\* a sequence of n copies of the call name c
RECURSIVE Times(_, _)
Times(c, n) == IF n <= 0 THEN <<>> ELSE <<c>> \o Times(c, n - 1)

\* the force configurations the model is run on: the defaults, the defaults
\* with one key changed, and every key with the same option
ForceConfigs ==
    {[DefaultForces EXCEPT ![key] = o] : key \in ForceKeys, o \in ForceOptions}
        \cup {[key \in ForceKeys |-> o] : o \in ForceOptions}

Init ==
    /\ config \in [autoRestart : BOOLEAN, initialIterations : 0..MaxInit,
                   forces : ForceConfigs]
    /\ \E ds \in Datasets :
          /\ \/ config.forces = DefaultForces
             \/ /\ ds = SingleDataset
                /\ ~config.autoRestart
                /\ config.initialIterations = 1
          /\ parsed = ds.nodes
          /\ parsedEdges = ds.edges
    /\ simulation = Constructor(config)
    /\ handed = <<>>
    /\ copySrc = <<>>
    /\ pendingFrames = 0
    /\ calls = <<"constructor", "stop">>
    /\ tree = NoOptions /\ dsTree = NoOptions /\ root = NoRoot

ResetLayout ==
    LET nodes0 == SuperLayoutHook(parsed)
        s1 == SimStop(simulation)
        nodes == [i \in 1..Len(nodes0) |-> ResetSimNode(nodes0[i], i - 1)]
        marked == [i \in 1..Len(nodes0) |-> ResetNode(nodes0[i], i - 1)]
        s2 == SimNodes(s1, nodes)
        s3 == SimRestart(SimAlphaMax(s2))
    IN  /\ parsed' = Adopt(marked, simulation.nodes)
        /\ simulation' = s3
        /\ handed' = nodes
        /\ copySrc' = <<>>
        /\ calls' = <<"resetLayout", "stop", "nodes", "alpha", "restart">>
        /\ UNCHANGED <<config, parsedEdges, pendingFrames>>
        /\ UNCHANGED treeVars

\* a resyncLayout that runs one synchronous tick too few
ResyncStartShortTick(sim, s, nodes, pos) ==
    LET n == sim.initialIterations
    IN  IF n > 0
        THEN LET ticked == SimTick(SimAlphaMax(s), n - 1, pos)
                 ran == <<"alpha">> \o Times("tick", n - 1) \o <<"copy">>
             IN  [simulation |-> IF sim.autoRestart THEN SimRestart(ticked) ELSE ticked,
                  parsed |-> CopyPosition(nodes, ticked.nodes),
                  copied |-> TRUE,
                  frames |-> IF sim.autoRestart THEN 0 ELSE 1,
                  calls |-> ran \o (IF sim.autoRestart THEN <<"restart">>
                                    ELSE <<"requestAnimationFrame">>)]
        ELSE IF sim.autoRestart
        THEN [simulation |-> SimRestart(SimAlphaMax(s)), parsed |-> nodes,
              copied |-> FALSE, frames |-> 0, calls |-> <<"alpha", "restart">>]
        ELSE [simulation |-> s, parsed |-> nodes,
              copied |-> FALSE, frames |-> 0, calls |-> <<>>]

\* a resyncLayout that restarts the simulation whatever autoRestart says when
\* there are no initial iterations
ResyncStartAlwaysRestarts(sim, s, nodes, pos) ==
    LET n == sim.initialIterations
    IN  IF n > 0
        THEN LET ticked == SimTick(SimAlphaMax(s), n, pos)
                 ran == <<"alpha">> \o Times("tick", n) \o <<"copy">>
             IN  [simulation |-> IF sim.autoRestart THEN SimRestart(ticked) ELSE ticked,
                  parsed |-> CopyPosition(nodes, ticked.nodes),
                  copied |-> TRUE,
                  frames |-> IF sim.autoRestart THEN 0 ELSE 1,
                  calls |-> ran \o (IF sim.autoRestart THEN <<"restart">>
                                    ELSE <<"requestAnimationFrame">>)]
        ELSE [simulation |-> SimRestart(SimAlphaMax(s)), parsed |-> nodes,
              copied |-> FALSE, frames |-> 0, calls |-> <<"alpha", "restart">>]

\* resyncLayout from the test of initialIterations on: the simulation, the
\* nodes, whether positions were copied, the animation frames requested and
\* the calls made
ResyncStart(sim, s, nodes, pos) ==
    LET n == sim.initialIterations
    IN  IF n > 0
        THEN LET ticked == SimTick(SimAlphaMax(s), n, pos)
                 ran == <<"alpha">> \o Times("tick", n) \o <<"copy">>
             IN  [simulation |-> IF sim.autoRestart THEN SimRestart(ticked) ELSE ticked,
                  parsed |-> CopyPosition(nodes, ticked.nodes),
                  copied |-> TRUE,
                  frames |-> IF sim.autoRestart THEN 0 ELSE 1,
                  calls |-> ran \o (IF sim.autoRestart THEN <<"restart">>
                                    ELSE <<"requestAnimationFrame">>)]
        ELSE IF sim.autoRestart
        THEN [simulation |-> SimRestart(SimAlphaMax(s)), parsed |-> nodes,
              copied |-> FALSE, frames |-> 0, calls |-> <<"alpha", "restart">>]
        ELSE [simulation |-> s, parsed |-> nodes,
              copied |-> FALSE, frames |-> 0, calls |-> <<>>]

ResyncLayout ==
    \E pos \in IF config.initialIterations > 0
                THEN Moves(Len(parsed)) ELSE {<<>>} :
    LET nodes0 == SuperLayoutHook(parsed)
        s1 == SimStop(simulation)
        nodes == [i \in 1..Len(nodes0) |-> ResyncSimNode(nodes0[i], i - 1)]
        marked == [i \in 1..Len(nodes0) |-> ResyncNode(nodes0[i], i - 1)]
        link == HasLink(s1)
        s2 == IF link THEN LinkLinks(s1, <<>>) ELSE s1
        s3 == SimNodes(s2, nodes)
        linked == ResyncLinks(s3, parsedEdges)
        s4 == IF link THEN linked.simulation ELSE s3
        adopted == Adopt(marked, simulation.nodes)
        built == <<"resyncLayout", "stop">>
                  \o (IF link THEN <<"links">> ELSE <<>>) \o <<"nodes">>
                  \o (IF link THEN <<"links">> ELSE <<>>)
        started == ResyncStart(config, s4, adopted, pos)
    IN  /\ pendingFrames + started.frames <= MaxPending
        /\ handed' = nodes
        /\ simulation' = started.simulation
        /\ parsed' = started.parsed
        /\ copySrc' = IF started.copied THEN CopySources(adopted) ELSE <<>>
        /\ pendingFrames' = pendingFrames + started.frames
        /\ calls' = built \o started.calls
        /\ parsedEdges' = IF link THEN linked.edges ELSE parsedEdges
        /\ UNCHANGED config
        /\ UNCHANGED treeVars

\* a reLayout that restarts the timer and forgets alpha(1)
ReLayoutForgetsAlpha(s) == SimRestart(s)

\* reLayout: what it does to the simulation
ReLayoutSim(s) == SimRestart(SimAlphaMax(s))

ReLayout ==
    /\ simulation' = ReLayoutSim(simulation)
    /\ calls' = <<"reLayout", "alpha", "restart">>
    /\ handed' = <<>>
    /\ copySrc' = <<>>
    /\ UNCHANGED <<config, parsed, parsedEdges, pendingFrames>>
    /\ UNCHANGED treeVars

\* a stopLayout that calls the hook and forgets this._simulation.stop()
StopLayoutForgetsStop(s) == s

\* a stopLayout that toggles the timer: it restarts a stopped simulation
StopLayoutToggles(s) == IF s.running THEN SimStop(s) ELSE SimRestart(s)

\* stopLayout: what it does to the simulation
StopLayoutSim(s) == SimStop(s)

StopLayout ==
    /\ parsed' = SuperLayoutHook(parsed)
    /\ simulation' = StopLayoutSim(simulation)
    /\ calls' = <<"stopLayout", "stop">>
    /\ handed' = <<>>
    /\ copySrc' = <<>>
    /\ UNCHANGED <<config, parsedEdges, pendingFrames>>
    /\ UNCHANGED treeVars

\* the simulation's timer callback (d3-force step): tick, the 'tick' handler
\* and, when alpha is below alphaMin, stop and the 'end' handler
Step ==
    /\ simulation.running
    /\ \E pos \in Moves(Len(simulation.nodes)) :
        LET s1 == SimTick(simulation, 1, pos)
            ticked == CopyPosition(parsed, s1.nodes)
        IN  IF Converged(s1)
            THEN /\ simulation' = SimStop(s1)
                 /\ parsed' = CopyPosition(ticked, s1.nodes)
                 /\ calls' = <<"step", "tick", "copy", "render",
                               "stop", "copy", "render">>
            ELSE /\ simulation' = s1
                 /\ parsed' = ticked
                 /\ calls' = <<"step", "tick", "copy", "render">>
    /\ copySrc' = CopySources(parsed)
    /\ handed' = <<>>
    /\ UNCHANGED <<config, parsedEdges, pendingFrames>>
    /\ UNCHANGED treeVars

\* a requestAnimationFrame callback: this.chart.update()
AnimationFrame ==
    /\ pendingFrames > 0
    /\ pendingFrames' = pendingFrames - 1
    /\ calls' = <<"animationFrame", "update">>
    /\ handed' = <<>>
    /\ copySrc' = <<>>
    /\ UNCHANGED <<config, parsed, parsedEdges, simulation>>
    /\ UNCHANGED treeVars

Next ==
    \/ ResetLayout
    \/ ResyncLayout
    \/ ReLayout
    \/ StopLayout
    \/ Step
    \/ AnimationFrame

Spec == Init /\ [][Next]_vars

\* the state-level form of ENABLED <<Step>>_vars: the timer is running and a
\* step changes the simulation
CanStep ==
    /\ simulation.running
    /\ \E pos \in Moves(Len(simulation.nodes)) :
          \E s1 \in {SimTick(simulation, 1, pos)} :
             (IF Converged(s1) THEN SimStop(s1) ELSE s1) # simulation

\* d3's timer calls step again and again while the simulation runs: weak
\* fairness of Step, WF_vars(Step), written out with CanStep for its ENABLED
FairSpec == Spec /\ ([]<>(~CanStep) \/ []<><<Step>>_vars)

(***************************************************************************)
(* DendogramController and TreeController: the hierarchy.                  *)
(*                                                                         *)
(* A tree dataset is a dataset whose edges form a tree.  A node of the     *)
(* hierarchy is named by the 0-based index of its parsed node (data.index).*)
(***************************************************************************)
\* a parsed node of a tree dataset
TreeNode(x, y) == [x |-> x, y |-> y, angle |-> Undef]

\* the edges of the tree in which node i > 0 has the parent p[i], in the order
\* of their targets
TreeEdges(p) == [i \in 1..Len(p) |-> Edge(p[i], i)]

\* the trees on n nodes whose edges lead from a node to a later node
Trees(n) ==
    { [nodes |-> [i \in 1..n |-> TreeNode(Undef, Undef)], edges |-> TreeEdges(p)] :
        p \in { q \in [1..(n - 1) -> 0..(n - 2)] : \A i \in 1..(n - 1) : q[i] < i } }

\* datasets whose root is not the first node and whose edges are not in the
\* order of their targets; the last has a node outside the hierarchy
OtherTrees ==
    { [nodes |-> [i \in 1..3 |-> TreeNode(Undef, Undef)],
       edges |-> <<Edge(2, 1), Edge(2, 0)>>],
      [nodes |-> [i \in 1..4 |-> TreeNode(Num(0), Num(0))],
       edges |-> <<Edge(3, 1), Edge(1, 2), Edge(3, 0)>>],
      [nodes |-> <<TreeNode(Undef, Undef), TreeNode(Num(3), Num(-3)),
                   TreeNode(Null, Null)>>,
       edges |-> <<Edge(2, 0)>>] }

\* the tree datasets the model is run on
TreeDatasets ==
    { ds \in OtherTrees \cup UNION { Trees(n) : n \in 1..MaxTreeNodes } :
        Len(ds.nodes) <= MaxTreeNodes }

\* getTreeRoot: the first node that is the target of no edge
GetTreeRoot(nodes, edges) ==
    LET free == { i \in 0..(Len(nodes) - 1) :
                    \A j \in 1..Len(edges) : edges[j].target # i }
    IN  CHOOSE i \in free : \A j \in free : i <= j

\* getTreeChildren: the targets of the edges whose source is node i, in the
\* order of the edges
GetTreeChildren(edges, i) ==
    LET from == SelectSeq(edges, LAMBDA e : e.source = i)
    IN  [j \in 1..Len(from) |-> from[j].target]

\* the nodes of the subtree of node i
RECURSIVE Descendants(_, _)
Descendants(edges, i) ==
    LET children == GetTreeChildren(edges, i)
    IN  {i} \cup UNION { Descendants(edges, children[j]) : j \in 1..Len(children) }

\* the largest of a non-empty set of numbers
Max(S) == CHOOSE m \in S : \A n \in S : n <= m

\* node.height: the longest way down to a leaf
RECURSIVE HeightOf(_, _)
HeightOf(edges, i) ==
    LET children == GetTreeChildren(edges, i)
    IN  IF children = <<>> THEN 0
        ELSE 1 + Max({ HeightOf(edges, children[j]) : j \in 1..Len(children) })

\* node.depth: the way up to the root r
RECURSIVE DepthOf(_, _, _)
DepthOf(edges, r, i) ==
    IF i = r THEN 0
    ELSE 1 + DepthOf(edges, r, (CHOOSE e \in {edges[j] : j \in 1..Len(edges)} :
                                    e.target = i).source)

\* hierarchy(root, children): the nodes reachable from the root, each with
\* its children in the order the accessor gives them, its depth and height
Hierarchy(nodes, edges) ==
    LET r == GetTreeRoot(nodes, edges)
    IN  [index |-> r,
         nodes |-> [i \in Descendants(edges, r) |->
                      [children |-> GetTreeChildren(edges, i),
                       parent |-> IF i = r THEN -1
                                  ELSE (CHOOSE e \in {edges[j] : j \in 1..Len(edges)} :
                                            e.target = i).source,
                       depth |-> DepthOf(edges, r, i),
                       height |-> HeightOf(edges, i),
                       value |-> 0,
                       x |-> Undef, y |-> Undef]]]

\* the number of leaves in the subtree of node i
RECURSIVE Leaves(_, _)
Leaves(h, i) ==
    LET children == h.nodes[i].children
    IN  IF children = <<>> THEN 1
        ELSE LET RECURSIVE Sum(_)
                 Sum(j) == IF j > Len(children) THEN 0
                           ELSE Leaves(h, children[j]) + Sum(j + 1)
             IN  Sum(1)

\* node.count(): value is the number of leaves under the node
HierarchyCount(h) ==
    [h EXCEPT !.nodes = [i \in DOMAIN h.nodes |->
                            [h.nodes[i] EXCEPT !.value = Leaves(h, i)]]]

\* a comparator that breaks ties by ascending index
CompareAscending(h, a, b) ==
    IF h.nodes[b].height - h.nodes[a].height # 0
    THEN h.nodes[b].height - h.nodes[a].height
    ELSE a - b

\* resyncLayout's comparator: b.height - a.height || b.data.index - a.data.index
Compare(h, a, b) ==
    IF h.nodes[b].height - h.nodes[a].height # 0
    THEN h.nodes[b].height - h.nodes[a].height
    ELSE b - a

\* Array.prototype.sort (stable): x put into a sorted array
SortInsert(h, sorted, x) ==
    LET before == Cardinality({ j \in 1..Len(sorted) : Compare(h, sorted[j], x) <= 0 })
    IN  SubSeq(sorted, 1, before) \o <<x>> \o SubSeq(sorted, before + 1, Len(sorted))

RECURSIVE SortFrom(_, _, _, _)
SortFrom(h, array, j, sorted) ==
    IF j > Len(array) THEN sorted
    ELSE SortFrom(h, array, j + 1, SortInsert(h, sorted, array[j]))

\* node.sort(compare): the children of every node sorted by the comparator
HierarchySort(h) ==
    [h EXCEPT !.nodes = [i \in DOMAIN h.nodes |->
        [h.nodes[i] EXCEPT !.children = SortFrom(h, h.nodes[i].children, 1, <<>>)]]]

(***************************************************************************)
(* d3-hierarchy: cluster() and tree().                                     *)
(*                                                                         *)
(* The size of a layout is [dx, dy]; dx is 2 or, for the radial            *)
(* orientation, 2 pi.  A multiple of pi is the record [k = "pi", n, d]:    *)
(* the number (n / d) * pi.                                                *)
(***************************************************************************)
\* a + b
Add(a0, b0) ==
    IF a0.k = "num" /\ b0.k = "num"
    THEN Frac(a0.n * b0.d + b0.n * a0.d, a0.d * b0.d)
    ELSE Sub(a0, Sub(Num(0), b0))

\* Math.PI * 2
TwoPi == [k |-> "pi", n |-> 2, d |-> 1]

\* size / b and a * size, for a size that is a number or a multiple of pi, and
\* finite numbers a and b # 0
SizeDiv(size, b) ==
    LET q == Frac(size.n * b.d, size.d * b.n)
    IN  [k |-> size.k, n |-> q.n, d |-> q.d]

SizeMul(a, size) ==
    LET q == Frac(a.n * size.n, a.d * size.d)
    IN  IF q.n = 0 THEN Num(0) ELSE [k |-> size.k, n |-> q.n, d |-> q.d]

\* eachAfter and eachBefore: the subtree of node i in post-order and in
\* pre-order, children from first to last
RECURSIVE PostOrder(_, _)
PostOrder(h, i) ==
    LET children == h.nodes[i].children
        RECURSIVE From(_)
        From(j) == IF j > Len(children) THEN <<>>
                   ELSE PostOrder(h, children[j]) \o From(j + 1)
    IN  From(1) \o <<i>>

RECURSIVE PreOrder(_, _)
PreOrder(h, i) ==
    LET children == h.nodes[i].children
        RECURSIVE From(_)
        From(j) == IF j > Len(children) THEN <<>>
                   ELSE PreOrder(h, children[j]) \o From(j + 1)
    IN  <<i>> \o From(1)

\* defaultSeparation(a, b)
Separation(h, a, b) == IF h.nodes[a].parent = h.nodes[b].parent THEN 1 ELSE 2

\* leafLeft, leafRight
RECURSIVE LeafLeft(_, _)
LeafLeft(h, i) ==
    IF h.nodes[i].children = <<>> THEN i ELSE LeafLeft(h, h.nodes[i].children[1])

RECURSIVE LeafRight(_, _)
LeafRight(h, i) ==
    LET children == h.nodes[i].children
    IN  IF children = <<>> THEN i ELSE LeafRight(h, children[Len(children)])

\* cluster's first pass over one node: a leaf is put a separation after the
\* leaf before it at y = 0, any other node at the mean x of its children and
\* one above the highest of them
ClusterStep(h, acc, i) ==
    LET children == h.nodes[i].children
        RECURSIVE SumX(_)
        SumX(j) == IF j > Len(children) THEN Num(0)
                   ELSE Add(acc.nodes[children[j]].x, SumX(j + 1))
        RECURSIVE MaxY(_)
        MaxY(j) == IF j > Len(children) THEN Num(0)
                   ELSE LET rest == MaxY(j + 1)
                            y == acc.nodes[children[j]].y
                        IN  IF Less(rest, y) THEN y ELSE rest
    IN  IF children # <<>>
        THEN [acc EXCEPT !.nodes[i].x = Div(SumX(1), Num(Len(children))),
                         !.nodes[i].y = Add(Num(1), MaxY(1))]
        ELSE LET x == IF acc.previous = -1 THEN Num(0)
                      ELSE Add(acc.x, Num(Separation(h, i, acc.previous)))
             IN  [nodes |-> [acc.nodes EXCEPT ![i].x = x, ![i].y = Num(0)],
                  previous |-> i,
                  x |-> IF acc.previous = -1 THEN acc.x ELSE x]

RECURSIVE ClusterFrom(_, _, _, _)
ClusterFrom(h, order, j, acc) ==
    IF j > Len(order) THEN acc
    ELSE ClusterFrom(h, order, j + 1, ClusterStep(h, acc, order[j]))

\* the last pass of cluster(): raw holds the nodes with the x and y of the
\* first pass
ClusterScale(h, dx, dy, raw) ==
    LET left == LeafLeft(h, h.index)
        right == LeafRight(h, h.index)
        x0 == Sub(raw[left].x, Div(Num(Separation(h, left, right)), Num(2)))
        x1 == Add(raw[right].x, Div(Num(Separation(h, right, left)), Num(2)))
        rootY == raw[h.index].y
    IN  [h EXCEPT !.nodes = [i \in DOMAIN h.nodes |->
            [raw[i] EXCEPT
                !.x = SizeMul(Div(Sub(raw[i].x, x0), Sub(x1, x0)), dx),
                !.y = Mul(Sub(Num(1), IF rootY # Num(0)
                                      THEN Div(raw[i].y, rootY) ELSE Num(1)), dy)]]]

\* cluster().size([dx, dy])(root)
Cluster(h, dx, dy) ==
    ClusterScale(h, dx, dy,
        ClusterFrom(h, PostOrder(h, h.index), 1,
                    [nodes |-> h.nodes, previous |-> -1, x |-> Num(0)]).nodes)

(***************************************************************************)
(* tree(): the Reingold-Tilford layout in Buchheim's linear form.  Every   *)
(* node of the hierarchy gets a TreeNode with the prelim z, the modifier   *)
(* m, the change c, the shift s, the ancestor a, the thread t and the      *)
(* default ancestor A; the root hangs under one more TreeNode, FakeParent. *)
(***************************************************************************)
FakeParent == -1
None == -2

Kids(h, v) == IF v = FakeParent THEN <<h.index>> ELSE h.nodes[v].children

\* TreeNode.i: the place of v among its parent's children, from 0
ChildIndex(h, v) ==
    LET siblings == Kids(h, h.nodes[v].parent)
    IN  (CHOOSE j \in 1..Len(siblings) : siblings[j] = v) - 1

\* treeRoot(root)
TreeRoot(h) ==
    [v \in DOMAIN h.nodes \cup {FakeParent} |->
        [z |-> Num(0), m |-> Num(0), c |-> Num(0), s |-> Num(0),
         a |-> v, t |-> None, A |-> None]]

NextLeft(h, st, v) ==
    LET children == Kids(h, v)
    IN  IF children # <<>> THEN children[1] ELSE st[v].t

NextRight(h, st, v) ==
    LET children == Kids(h, v)
    IN  IF children # <<>> THEN children[Len(children)] ELSE st[v].t

MoveSubtree(h, st, wm, wp, shift) ==
    LET change == Div(shift, Num(ChildIndex(h, wp) - ChildIndex(h, wm)))
        st1 == [st EXCEPT ![wp].c = Sub(@, change),
                          ![wp].s = Add(@, shift)]
        st2 == [st1 EXCEPT ![wm].c = Add(@, change)]
    IN  [st2 EXCEPT ![wp].z = Add(@, shift),
                    ![wp].m = Add(@, shift)]

ExecuteShifts(h, st, v) ==
    LET children == Kids(h, v)
        RECURSIVE Down(_, _, _, _)
        Down(i, cur, shift, change) ==
            IF i < 1 THEN cur
            ELSE LET w == children[i]
                     change1 == Add(change, cur[w].c)
                 IN  Down(i - 1,
                          [cur EXCEPT ![w].z = Add(@, shift),
                                      ![w].m = Add(@, shift)],
                          Add(shift, Add(cur[w].s, change1)),
                          change1)
    IN  Down(Len(children), st, Num(0), Num(0))

NextAncestor(h, st, vim, v, ancestor) ==
    IF h.nodes[st[vim].a].parent = h.nodes[v].parent THEN st[vim].a ELSE ancestor

\* The loop of apportion.  L holds the state st of the tree nodes and the
\* loop's variables vip, vop, vim, vom, sip, sop, sim, som; the result is L
\* when the loop is left.  One turn of the loop is ApportionLoop (the loop's
\* condition), ApportionContours (vom, vop, vop.a = v), ApportionShift (shift),
\* ApportionMove (moveSubtree) and ApportionSums (the four sums).
RECURSIVE ApportionLoop(_, _, _, _)
RECURSIVE ApportionContours(_, _, _, _)
RECURSIVE ApportionShift(_, _, _, _)
RECURSIVE ApportionMove(_, _, _, _, _)
RECURSIVE ApportionSums(_, _, _, _)

ApportionSums(h, v, ancestor, L) ==
    ApportionLoop(h, v, ancestor,
        [L EXCEPT !.sim = Add(@, L.st[L.vim].m), !.sip = Add(@, L.st[L.vip].m),
                  !.som = Add(@, L.st[L.vom].m), !.sop = Add(@, L.st[L.vop].m)])

ApportionMove(h, v, ancestor, L, shift) ==
    IF Less(Num(0), shift)
    THEN ApportionSums(h, v, ancestor,
            [L EXCEPT !.st = MoveSubtree(h, @, NextAncestor(h, @, L.vim, v, ancestor),
                                         v, shift),
                      !.sip = Add(@, shift),
                      !.sop = Add(@, shift)])
    ELSE ApportionSums(h, v, ancestor, L)

ApportionShift(h, v, ancestor, L) ==
    ApportionMove(h, v, ancestor, L,
        Add(Sub(Sub(Add(L.st[L.vim].z, L.sim), L.st[L.vip].z), L.sip),
            Num(Separation(h, L.vim, L.vip))))

ApportionContours(h, v, ancestor, L) ==
    ApportionShift(h, v, ancestor,
        [L EXCEPT !.vom = NextLeft(h, L.st, @),
                  !.vop = NextRight(h, L.st, @),
                  !.st[NextRight(h, L.st, L.vop)].a = v])

ApportionLoop(h, v, ancestor, L) ==
    IF NextRight(h, L.st, L.vim) = None \/ NextLeft(h, L.st, L.vip) = None
    THEN [L EXCEPT !.vim = NextRight(h, L.st, @), !.vip = NextLeft(h, L.st, @)]
    ELSE ApportionContours(h, v, ancestor,
            [L EXCEPT !.vim = NextRight(h, L.st, @), !.vip = NextLeft(h, L.st, @)])

\* after the loop: if (vim && !nextRight(vop)) { vop.t = vim; vop.m += sim - sop }
ThreadRight(h, L) ==
    IF L.vim # None /\ NextRight(h, L.st, L.vop) = None
    THEN [L EXCEPT !.st[L.vop].t = L.vim,
                   !.st[L.vop].m = Add(@, Sub(L.sim, L.sop))]
    ELSE L

\* after the loop: if (vip && !nextLeft(vom)) { vom.t = vip; vom.m += sip - som;
\* ancestor = v }; the state of the tree nodes and the new default ancestor
ThreadLeft(h, v, ancestor, L) ==
    IF L.vip # None /\ NextLeft(h, L.st, L.vom) = None
    THEN [st |-> [L.st EXCEPT ![L.vom].t = L.vip,
                              ![L.vom].m = Add(@, Sub(L.sip, L.som))],
          ancestor |-> v]
    ELSE [st |-> L.st, ancestor |-> ancestor]

\* apportion(v, w, ancestor): the state of the tree nodes and the new default
\* ancestor
Apportion(h, st, v, w, ancestor) ==
    IF w = None THEN [st |-> st, ancestor |-> ancestor]
    ELSE ThreadLeft(h, v, ancestor, ThreadRight(h,
            ApportionLoop(h, v, ancestor,
                [st |-> st, vip |-> v, vop |-> v, vim |-> w,
                 vom |-> Kids(h, h.nodes[v].parent)[1],
                 sip |-> st[v].m, sop |-> st[v].m, sim |-> st[w].m,
                 som |-> st[Kids(h, h.nodes[v].parent)[1]].m])))

\* v's left sibling, None without one
LeftSibling(h, v) ==
    IF ChildIndex(h, v) > 0 THEN Kids(h, h.nodes[v].parent)[ChildIndex(h, v)] ELSE None

\* firstWalk after executeShifts: v.z and v.m
Place(h, st, v, w) ==
    LET children == Kids(h, v)
        midpoint == Div(Add(st[children[1]].z, st[children[Len(children)]].z), Num(2))
        placed == Add(st[w].z, Num(Separation(h, v, w)))
    IN  IF children # <<>>
        THEN IF w # None
             THEN [st EXCEPT ![v].z = placed,
                             ![v].m = Sub(placed, midpoint)]
             ELSE [st EXCEPT ![v].z = midpoint]
        ELSE IF w # None THEN [st EXCEPT ![v].z = placed] ELSE st

\* v.parent.A = apportion(v, w, v.parent.A || siblings[0])
WithAncestor(parent, apportioned) ==
    [apportioned.st EXCEPT ![parent].A = apportioned.ancestor]

SetAncestor(h, st, v, w) ==
    WithAncestor(h.nodes[v].parent,
        Apportion(h, st, v, w,
                  IF st[h.nodes[v].parent].A # None THEN st[h.nodes[v].parent].A
                  ELSE Kids(h, h.nodes[v].parent)[1]))

FirstWalk(h, st, v) ==
    SetAncestor(h,
                Place(h, IF Kids(h, v) # <<>> THEN ExecuteShifts(h, st, v) ELSE st,
                      v, LeftSibling(h, v)),
                v, LeftSibling(h, v))

RECURSIVE FirstWalkFrom(_, _, _, _)
FirstWalkFrom(h, order, j, st) ==
    IF j > Len(order) THEN st
    ELSE FirstWalkFrom(h, order, j + 1, FirstWalk(h, st, order[j]))

\* t.parent.m = -t.z
RootModifier(h, st) == [st EXCEPT ![FakeParent].m = Sub(Num(0), st[h.index].z)]

\* secondWalk over the nodes in pre-order: acc holds the tree nodes and the
\* x of the hierarchy's nodes
RECURSIVE SecondWalkFrom(_, _, _, _)
SecondWalkFrom(h, order, j, acc) ==
    IF j > Len(order) THEN acc
    ELSE SecondWalkFrom(h, order, j + 1,
            [st |-> [acc.st EXCEPT ![order[j]].m = Add(@, acc.st[h.nodes[order[j]].parent].m)],
             x |-> [acc.x EXCEPT ![order[j]] =
                        Add(acc.st[order[j]].z, acc.st[h.nodes[order[j]].parent].m)]])

\* the leftmost, the rightmost and the deepest node: the first in pre-order
\* with the least x, the greatest x, the greatest depth
RECURSIVE Extremes(_, _, _, _, _)
Extremes(h, x, order, j, e) ==
    IF j > Len(order) THEN e
    ELSE Extremes(h, x, order, j + 1,
            [left |-> IF Less(x[order[j]], x[e.left]) THEN order[j] ELSE e.left,
             right |-> IF Less(x[e.right], x[order[j]]) THEN order[j] ELSE e.right,
             bottom |-> IF h.nodes[order[j]].depth > h.nodes[e.bottom].depth
                        THEN order[j] ELSE e.bottom])

\* the last pass of tree(): node.x = (node.x + tx) * kx, node.y = node.depth * ky
\* with s, the separation of the extremes halved, tx = s - left.x,
\* kx = dx / (right.x + s + tx) and ky = dy / (bottom.depth || 1)
TreeScale(h, dx, dy, x, e, s) ==
    [h EXCEPT !.nodes = [i \in DOMAIN h.nodes |->
        [h.nodes[i] EXCEPT
            !.x = SizeMul(Add(x[i], Sub(s, x[e.left])),
                          SizeDiv(dx, Add(Add(x[e.right], s), Sub(s, x[e.left])))),
            !.y = Mul(Num(h.nodes[i].depth),
                      Div(dy, Num(IF h.nodes[e.bottom].depth # 0
                                  THEN h.nodes[e.bottom].depth ELSE 1)))]]]

\* tree() after the two walks: x holds the x of the hierarchy's nodes
TreeSized(h, dx, dy, x, e) ==
    TreeScale(h, dx, dy, x, e,
              IF e.left = e.right THEN Num(1)
              ELSE Div(Num(Separation(h, e.left, e.right)), Num(2)))

TreeWalked(h, dx, dy, x) ==
    TreeSized(h, dx, dy, x,
              Extremes(h, x, PreOrder(h, h.index), 1,
                       [left |-> h.index, right |-> h.index, bottom |-> h.index]))

\* tree().size([dx, dy])(root)
Tree(h, dx, dy) ==
    TreeWalked(h, dx, dy,
        SecondWalkFrom(h, PreOrder(h, h.index), 1,
            [st |-> RootModifier(h, FirstWalkFrom(h, PostOrder(h, h.index), 1,
                                                  TreeRoot(h))),
             x |-> [i \in DOMAIN h.nodes |-> Undef]]).x)

(***************************************************************************)
(* DendogramController and TreeController: doLayout, resyncLayout and      *)
(* reLayout.                                                               *)
(*                                                                         *)
(* Math.cos(a) * r and Math.sin(a) * r are kept as the records             *)
(* [k = "cos" or "sin", angle, r]; with r = 0 they are the number 0.       *)
(***************************************************************************)
TreeModes == {"tree", "dendogram"}
Orientations == {"horizontal", "vertical", "radial"}

\* keys the object literal `orientation` inherits from Object.prototype whose
\* value is a function that can be called with a node and returns
InheritedKeys == {"constructor", "toString"}

\* the values the sample page's selects and a caller give the options: the
\* declared ones, a typo, and one of the names every object has
ModeValues == TreeModes \cup {"dendrogram"}
OrientationValues == Orientations \cup {"diagonal", "constructor"}

\* the newOptions reLayout is called with: null, {}, { mode }, { orientation }
NewOptions ==
    {NoOptions}
        \cup [defined : {TRUE}, mode : ModeValues \cup {Absent}, orientation : {Absent}]
        \cup [defined : {TRUE}, mode : {Absent}, orientation : OrientationValues]

\* Object.assign(target, newOptions)
Assign(target, newOptions) ==
    [defined |-> TRUE,
     mode |-> IF newOptions.mode # Absent THEN newOptions.mode ELSE target.mode,
     orientation |-> IF newOptions.orientation # Absent
                     THEN newOptions.orientation ELSE target.orientation]

\* a reLayout that merges the new options into the dataset only
MergeConfigForgets(options, newOptions) == options

\* reLayout: this._config.tree after the merge
MergeConfig(options, newOptions) ==
    IF newOptions.defined THEN Assign(options, newOptions) ELSE options

\* reLayout: the dataset's tree options after the merge
MergeDataset(ds, newOptions) ==
    IF ~newOptions.defined THEN ds
    ELSE IF ds.defined THEN Assign(ds, newOptions) ELSE newOptions

\* a size that is 2 x 2 whatever the orientation
LayoutSizeAlwaysSquare(options) == <<Num(2), Num(2)>>

\* layout.size(...)
LayoutSize(options) ==
    IF options.orientation = "radial" THEN <<TwoPi, Num(1)>> ELSE <<Num(2), Num(2)>>

\* the layout of the hierarchy h: d3's tree() or cluster()
Layout(options, h) ==
    LET size == LayoutSize(options)
    IN  IF options.mode = "tree" THEN Tree(h, size[1], size[2])
        ELSE Cluster(h, size[1], size[2])

Polar(f, angle, r) ==
    IF r = Num(0) THEN Num(0) ELSE [k |-> f, angle |-> angle, r |-> r]

\* a horizontal orientation that forgets to move the canvas to the origin
HorizontalNoShift(d, data) ==
    [data EXCEPT !.x = d.y,
                 !.y = Sub(Num(0), d.x)]

\* a horizontal orientation that takes x for the depth
HorizontalSwapped(d, data) ==
    [data EXCEPT !.x = Sub(d.x, Num(1)),
                 !.y = Add(Sub(Num(0), d.y), Num(1))]

\* orientation.horizontal
Horizontal(d, data) ==
    [data EXCEPT !.x = Sub(d.y, Num(1)),
                 !.y = Add(Sub(Num(0), d.x), Num(1))]

\* orientation.vertical
Vertical(d, data) ==
    [data EXCEPT !.x = Sub(d.x, Num(1)),
                 !.y = Add(Sub(Num(0), d.y), Num(1))]

\* a radial angle without the test for the root
RadialAngleOfAll(d) == d.x

\* orientation.radial: data.angle
RadialAngle(d) == IF d.y = Num(0) THEN NaN ELSE d.x

\* orientation.radial
Radial(d, data) ==
    [data EXCEPT !.x = Polar("cos", d.x, d.y),
                 !.y = Polar("sin", d.x, d.y),
                 !.angle = RadialAngle(d)]

\* orientation[options.orientation] || orientation.horizontal: the lookup
\* finds an own key, or a key inherited from Object.prototype (a function
\* that writes nothing to d.data), or nothing, and then horizontal is taken
Orientation(options, d, data) ==
    CASE options.orientation = "horizontal" -> Horizontal(d, data)
      [] options.orientation = "vertical" -> Vertical(d, data)
      [] options.orientation = "radial" -> Radial(d, data)
      [] options.orientation \in InheritedKeys -> data
      [] OTHER -> Horizontal(d, data)

\* doLayout(root): the hierarchy with the layout's x and y, and the parsed
\* nodes with the positions each(...) writes to the nodes of the hierarchy
Each(options, laid, nodes) ==
    [root |-> laid,
     parsed |-> [i \in 1..Len(nodes) |->
                    IF (i - 1) \in DOMAIN laid.nodes
                    THEN Orientation(options, laid.nodes[i - 1], nodes[i])
                    ELSE nodes[i]]]

DoLayout(options, h, nodes) == Each(options, Layout(options, h), nodes)

\* a doLayout that asks for the render twice
RequestTwoFrames(frames) == frames + 2

\* requestAnimationFrame(() => this.chart.update()): the callbacks waiting
RequestAnimationFrame(frames) == frames + 1

\* hierarchy(...).count().sort(...)
BuildRoot(nodes, edges) == HierarchySort(HierarchyCount(Hierarchy(nodes, edges)))

TreeResyncLayout ==
    \E done \in {DoLayout(tree, BuildRoot(parsed, parsedEdges), parsed)} :
        /\ pendingFrames < MaxPending
        /\ root' = done.root
        /\ parsed' = SuperLayoutHook(done.parsed)
        /\ pendingFrames' = RequestAnimationFrame(pendingFrames)
        /\ calls' = <<"resyncLayout", "hierarchy", "doLayout", "requestAnimationFrame">>
        /\ UNCHANGED <<tree, dsTree, parsedEdges>>
        /\ UNCHANGED <<config, simulation, handed, copySrc>>

\* reLayout(newOptions); without a root (no resyncLayout ran yet) the layout
\* throws after the options are merged
TreeReLayout ==
    \E newOptions \in NewOptions :
        /\ tree' = MergeConfig(tree, newOptions)
        /\ dsTree' = MergeDataset(dsTree, newOptions)
        /\ IF root = NoRoot
           THEN /\ calls' = <<"reLayout", "doLayout", "throw">>
                /\ UNCHANGED <<root, parsed, pendingFrames>>
           ELSE \E done \in {DoLayout(tree', root, parsed)} :
                    /\ pendingFrames < MaxPending
                    /\ root' = done.root
                    /\ parsed' = done.parsed
                    /\ pendingFrames' = RequestAnimationFrame(pendingFrames)
                    /\ calls' = <<"reLayout", "doLayout", "requestAnimationFrame">>
        /\ UNCHANGED parsedEdges
        /\ UNCHANGED <<config, simulation, handed, copySrc>>

\* the controller of a dendogram or a tree chart after construction: the
\* dataset sets no tree options, this._config.tree holds the defaults
TreeInit ==
    /\ \E ds \in TreeDatasets :
          /\ parsed = ds.nodes
          /\ parsedEdges = ds.edges
    /\ tree \in [defined : {TRUE}, mode : TreeModes, orientation : {"horizontal"}]
    /\ dsTree = NoOptions
    /\ root = NoRoot
    /\ pendingFrames = 0
    /\ calls = <<"constructor">>
    /\ config = [autoRestart |-> FALSE, initialIterations |-> 0,
                 forces |-> DefaultForces]
    /\ simulation = Constructor(config)
    /\ handed = <<>>
    /\ copySrc = <<>>

TreeNext ==
    \/ TreeResyncLayout
    \/ TreeReLayout
    \/ AnimationFrame

TreeSpec == TreeInit /\ [][TreeNext]_vars

(***************************************************************************)
(* _copyPosition by itself: the controller after a resyncLayout whose      *)
(* simulation has moved the nodes onto coordinates out of RawCoords, and   *)
(* the position copy of a tick or end handler.                             *)
(***************************************************************************)
\* the coordinates the SimulationNodes are on
RawCoords == {-1, 0, 1}

\* the SimulationNode with the index i at the position pos
RawSimNode(i, pos) ==
    [x |-> Num(pos[1]), y |-> Num(pos[2]), vx |-> Num(0), vy |-> Num(0), index |-> i]

NormInit ==
    /\ config = [autoRestart |-> FALSE, initialIterations |-> 0,
                 forces |-> DefaultForces]
    /\ \E n \in 1..MaxRaw :
          \E pos \in [1..n -> RawCoords \X RawCoords] :
              /\ simulation = [SimStop(Constructor(config)) EXCEPT
                                  !.nodes = [i \in 1..n |-> RawSimNode(i - 1, pos[i])]]
              /\ parsed = Adopt([i \in 1..n |->
                                    ResyncNode(Node(Undef, Undef, Undef, Undef), i - 1)],
                                <<>>)
    /\ parsedEdges = <<>>
    /\ handed = <<>>
    /\ copySrc = <<>>
    /\ pendingFrames = 0
    /\ calls = <<"resyncLayout">>
    /\ tree = NoOptions /\ dsTree = NoOptions /\ root = NoRoot

\* _copyPosition()
NormCopy ==
    /\ parsed' = CopyPosition(parsed, simulation.nodes)
    /\ copySrc' = CopySources(parsed)
    /\ calls' = <<"_copyPosition">>
    /\ UNCHANGED <<config, parsedEdges, simulation, handed, pendingFrames>>
    /\ UNCHANGED treeVars

NormNext == NormCopy

NormSpec == NormInit /\ [][NormNext]_vars

(***************************************************************************)
(* Properties                                                              *)
(***************************************************************************)
\* the handler that ran last
LastHandler == calls[1]

\* the handler that ran last copied positions
Copied == copySrc # <<>>

\* the nodes that have a SimulationNode
WithSim(nodes) == {i \in 1..Len(nodes) : nodes[i].sim.kind # "none"}

\* a number within [-1, 1]
InUnit(v) == v.k = "num" /\ -v.d <= v.n /\ v.n <= v.d

\* x and y of every node
Positions(nodes) == [i \in 1..Len(nodes) |-> <<nodes[i].x, nodes[i].y>>]

\* how often the call c is in a sequence of calls
Count(c, cs) == Cardinality({j \in 1..Len(cs) : cs[j] = c})

\* the place of the first call c in a sequence of calls (0: none)
First(c, cs) ==
    IF \E j \in 1..Len(cs) : cs[j] = c
    THEN CHOOSE j \in 1..Len(cs) : cs[j] = c /\ \A h \in 1..(j - 1) : cs[h] # c
    ELSE 0

\* all SimulationNodes the nodes refer to have the same x (y)
SameX == \A i, j \in WithSim(parsed) :
            Deref(parsed[i].sim, simulation.nodes).x = Deref(parsed[j].sim, simulation.nodes).x
SameY == \A i, j \in WithSim(parsed) :
            Deref(parsed[i].sim, simulation.nodes).y = Deref(parsed[j].sim, simulation.nodes).y

\* C1: after a position copy over SimulationNodes that all share the same x,
\* every node's x is the constant 0 (never NaN or Infinity); the same for y.
C1_DegenerateExtentIsZero ==
    Copied =>
        /\ SameX => \A i \in WithSim(parsed) : parsed[i].x = Num(0)
        /\ SameY => \A i \in WithSim(parsed) : parsed[i].y = Num(0)

\* C2: after every position copy, every node that has a SimulationNode has x
\* and y in [-1, 1]; the node at the minimum of an axis is at -1, the node at
\* the maximum at 1.
C2_CopiedPositionsInUnitSquare ==
    Copied =>
        LET minmax == MinMax(parsed, simulation.nodes)
        IN  \A i \in WithSim(parsed) :
                LET sn == Deref(parsed[i].sim, simulation.nodes)
                IN  /\ InUnit(parsed[i].x) /\ InUnit(parsed[i].y)
                    /\ sn.x = minmax.minX => parsed[i].x = Num(-1)
                    /\ sn.x = minmax.maxX => parsed[i].x = Num(1)
                    /\ sn.y = minmax.minY => parsed[i].y = Num(-1)
                    /\ sn.y = minmax.maxY => parsed[i].y = Num(1)

\* the handlers that may start the simulation again
Restarters == {"reLayout", "resetLayout", "resyncLayout"}

\* C3: after stopLayout the simulation's timer is stopped, and while it is
\* stopped no tick or end callback runs and no node's x, y changes until
\* reLayout, resetLayout or resyncLayout runs.
C3_NoMutationAfterStop ==
    /\ [](LastHandler = "stopLayout" => ~simulation.running)
    /\ [][(~simulation.running /\ calls'[1] \notin Restarters) =>
            /\ calls'[1] # "step"
            /\ ~simulation'.running
            /\ Positions(parsed') = Positions(parsed)]_vars

\* C3: the simulation was stopped between two ticks of a run, with positions copied
C3_Witness ==
    /\ LastHandler = "stopLayout"
    /\ 0 < simulation.alpha /\ simulation.alpha < AlphaSteps
    /\ \E i \in WithSim(parsed) : parsed[i].x.k = "num"

\* C4: resetLayout and resyncLayout stop the simulation before they replace
\* its nodes, every node's _sim is a SimulationNode of the simulation's current
\* array, and no position copy reads a SimulationNode of a replaced array.
C4_NoCopyFromEarlierGeneration ==
    /\ LastHandler \in {"resetLayout", "resyncLayout"} =>
          /\ calls[2] = "stop"
          /\ First("stop", calls) < First("nodes", calls)
    /\ \A i \in 1..Len(parsed) : parsed[i].sim.kind \in {"none", "cur"}
    /\ \A i \in 1..Len(copySrc) : copySrc[i] \in {"none", "cur"}

\* C4: a tick copied positions of a run that resetLayout or resyncLayout started
C4_Witness ==
    /\ LastHandler = "step"
    /\ Len(parsed) > 1
    /\ \A i \in 1..Len(copySrc) : copySrc[i] = "cur"
    /\ \E i \in 1..Len(parsed) : parsed[i].reset

\* C5: a force is attached to the simulation if and only if its option is
\* true or an options object.
C5_ForceAttachedIffEnabled ==
    \A key \in ForceKeys :
        key \in DOMAIN simulation.forces <=> config.forces[key] \in {"true", "options"}

\* C5: after a resync, a force disabled against its default is not attached
\* and the others are
C5_Witness ==
    /\ LastHandler = "resyncLayout"
    /\ config.forces["link"] = "false"
    /\ "link" \notin DOMAIN simulation.forces
    /\ "center" \in DOMAIN simulation.forces

\* x, y, vx and vy of a node or SimulationNode
Motion(n) == <<n.x, n.y, n.vx, n.vy>>

\* x, y, vx and vy are all absent
Cleared(n) == Motion(n) = <<Undef, Undef, Undef, Undef>>

\* C6: the SimulationNode resetLayout builds for a node with reset = false has
\* exactly the node's x, y, vx, vy, and the simulation starts it at that x, y
\* (and vx, vy) when they are numbers; the SimulationNode built for a node with
\* reset = true has no x, y, vx, vy, whatever the node's values.
C6_ResetFlagOnReset ==
    LastHandler = "resetLayout" =>
        /\ Len(handed) = Len(parsed)
        /\ \A i \in 1..Len(parsed) :
              /\ parsed[i].reset => Cleared(handed[i])
              /\ ~parsed[i].reset =>
                    /\ Motion(handed[i]) = Motion(parsed[i])
                    /\ (parsed[i].x.k = "num" /\ parsed[i].y.k = "num") =>
                          /\ simulation.nodes[i].x = parsed[i].x
                          /\ simulation.nodes[i].y = parsed[i].y
                    /\ (parsed[i].vx.k = "num" /\ parsed[i].vy.k = "num") =>
                          /\ simulation.nodes[i].vx = parsed[i].vx
                          /\ simulation.nodes[i].vy = parsed[i].vy

\* C6: resetLayout ran on a node with reset = true that has a position and on
\* a node with reset = false that has a position and a velocity
C6_Witness ==
    /\ LastHandler = "resetLayout"
    /\ \E i \in 1..Len(parsed) : parsed[i].reset /\ parsed[i].x.k = "num"
    /\ \E i \in 1..Len(parsed) :
          ~parsed[i].reset /\ parsed[i].x.k = "num" /\ parsed[i].vx.k = "num"

\* the same value, null and absent taken as the same
Same(a, b) == a = b \/ (IsNullish(a) /\ IsNullish(b))

\* no node's x or y is NaN
NoNaN(nodes) == \A i \in 1..Len(nodes) : nodes[i].x # NaN /\ nodes[i].y # NaN

\* C7 as stated: resyncLayout builds one SimulationNode per node, in order,
\* with index the node's position; for a node flagged reset its x, y, vx, vy
\* are cleared, for every other node they are the node's prior x, y, vx, vy.
\* (Stated for nodes whose positions are not NaN, so that the degenerate
\* extents of C1 play no part.)
C7_AsStated ==
    [][(calls'[1] = "resyncLayout" /\ NoNaN(parsed)) =>
        /\ Len(handed') = Len(parsed)
        /\ \A i \in 1..Len(parsed) :
              /\ handed'[i].index = i - 1
              /\ parsed'[i].reset => Cleared(handed'[i])
              /\ ~parsed'[i].reset =>
                    /\ Same(handed'[i].x, parsed[i].x)
                    /\ Same(handed'[i].y, parsed[i].y)
                    /\ Same(handed'[i].vx, parsed[i].vx)
                    /\ Same(handed'[i].vy, parsed[i].vy)]_vars

\* C7 amended: resyncLayout builds one SimulationNode per node, in order, with
\* index the node's position; a null x or y is absent in the SimulationNode and
\* every other x, y, vx, vy is the node's prior value, flagged reset or not; a
\* node whose x and y are both null or absent is flagged reset.
C7_ResyncKeepsPositions ==
    [][calls'[1] = "resyncLayout" =>
        /\ Len(handed') = Len(parsed)
        /\ Len(simulation'.nodes) = Len(parsed)
        /\ Len(parsed') = Len(parsed)
        /\ \A i \in 1..Len(parsed) :
              /\ handed'[i].index = i - 1
              /\ simulation'.nodes[i].index = i - 1
              /\ handed'[i].x = IF parsed[i].x = Null THEN Undef ELSE parsed[i].x
              /\ handed'[i].y = IF parsed[i].y = Null THEN Undef ELSE parsed[i].y
              /\ handed'[i].vx = parsed[i].vx
              /\ handed'[i].vy = parsed[i].vy
              /\ parsed'[i].reset =
                    (parsed[i].reset \/ (IsNullish(parsed[i].x) /\ IsNullish(parsed[i].y)))]_vars

\* C7: resyncLayout ran on a node flagged reset whose SimulationNode kept its position
C7_Witness ==
    /\ LastHandler = "resyncLayout"
    /\ \E i \in 1..Len(parsed) : parsed[i].reset /\ handed[i].x.k = "num"

\* the simulation has run: every node has its SimulationNode, a tick has
\* moved them since alpha was last set to its maximum, and the copy computed
\* a number for every position
HasRun ==
    /\ Len(parsed) > 0
    /\ \A i \in 1..Len(parsed) : parsed[i].x.k = "num" /\ parsed[i].y.k = "num"
    /\ \A i \in 1..Len(parsed) : parsed[i].sim = Ref("cur", i - 1)
    /\ simulation.alpha < AlphaSteps

\* C8 as stated: a resetLayout after the simulation has run starts every
\* SimulationNode at the x, y its SimulationNode had just before.
C8_AsStated ==
    [][(calls'[1] = "resetLayout" /\ HasRun) =>
        \A i \in 1..Len(parsed) :
            /\ simulation'.nodes[i].x = simulation.nodes[i].x
            /\ simulation'.nodes[i].y = simulation.nodes[i].y]_vars

\* C8 amended: resetLayout starts the next run from the nodes' own x, y (the
\* rescaled coordinates the last position copy wrote, or the dataset's), not
\* from the SimulationNodes' positions: a node not flagged reset whose x and y
\* are numbers starts at exactly its x, y; a node flagged reset starts at the
\* simulation's initial placement for its index.
C8_ResetStartsFromNodePositions ==
    LastHandler = "resetLayout" =>
        /\ Len(simulation.nodes) = Len(parsed)
        /\ simulation.running /\ simulation.alpha = AlphaSteps
        /\ \A i \in 1..Len(parsed) :
              /\ (~parsed[i].reset /\ parsed[i].x.k = "num" /\ parsed[i].y.k = "num") =>
                    /\ simulation.nodes[i].x = parsed[i].x
                    /\ simulation.nodes[i].y = parsed[i].y
              /\ parsed[i].reset =>
                    /\ simulation.nodes[i].x = Num(InitialPos(i - 1)[1])
                    /\ simulation.nodes[i].y = Num(InitialPos(i - 1)[2])

\* C8: resetLayout started a node at the rescaled x the position copy wrote
C8_Witness ==
    /\ LastHandler = "resetLayout"
    /\ \E i \in 1..Len(parsed) :
          /\ ~parsed[i].reset
          /\ parsed[i].x = Num(-1)
          /\ simulation.nodes[i].x = Num(-1)
          /\ copySrc = <<>>

\* alpha after n ticks from its maximum
AlphaAfter(n) == IF AlphaSteps > n THEN AlphaSteps - n ELSE 0

\* C9: a resyncLayout with initialIterations > 0 runs exactly that many ticks
\* synchronously, then copies positions once, before any render is requested;
\* then with autoRestart it restarts the simulation's timer and requests no
\* render, without autoRestart it requests exactly one render and the timer
\* stays stopped.
C9_WarmStart ==
    [][(calls'[1] = "resyncLayout" /\ config.initialIterations > 0) =>
        /\ Count("tick", calls') = config.initialIterations
        /\ simulation'.alpha = AlphaAfter(config.initialIterations)
        /\ Count("copy", calls') = 1
        /\ copySrc' = [i \in 1..Len(parsed) |-> "cur"]
        /\ \A j \in 1..Len(calls') :
              /\ calls'[j] = "tick" => j < First("copy", calls')
              /\ calls'[j] \in {"restart", "requestAnimationFrame"} =>
                    j > First("copy", calls')
        /\ Count("render", calls') = 0
        /\ IF config.autoRestart
           THEN /\ simulation'.running
                /\ Count("restart", calls') = 1
                /\ Count("requestAnimationFrame", calls') = 0
                /\ pendingFrames' = pendingFrames
           ELSE /\ ~simulation'.running
                /\ Count("restart", calls') = 0
                /\ Count("requestAnimationFrame", calls') = 1
                /\ pendingFrames' = pendingFrames + 1]_vars

\* C9: a resync without autoRestart ran its initial iterations, copied and
\* requested its render
C9_Witness ==
    /\ LastHandler = "resyncLayout"
    /\ config.initialIterations > 0 /\ ~config.autoRestart
    /\ Copied /\ pendingFrames = 1 /\ ~simulation.running
    /\ Len(parsed) > 1

\* C10: a resyncLayout with initialIterations = 0 and autoRestart sets alpha to
\* its maximum and restarts the timer; without autoRestart the simulation stays
\* stopped; in both cases it runs no tick, copies nothing and leaves every
\* node's x, y as it was.
C10_ColdStart ==
    [][(calls'[1] = "resyncLayout" /\ config.initialIterations = 0) =>
        /\ Count("tick", calls') = 0 /\ Count("copy", calls') = 0
        /\ copySrc' = <<>>
        /\ pendingFrames' = pendingFrames
        /\ Positions(parsed') = Positions(parsed)
        /\ IF config.autoRestart
           THEN simulation'.running /\ simulation'.alpha = AlphaSteps
           ELSE ~simulation'.running /\ simulation'.alpha = simulation.alpha]_vars

\* C10: a resync without autoRestart and without initial iterations left the
\* simulation stopped and a node without position
C10_Witness ==
    /\ LastHandler = "resyncLayout"
    /\ config.initialIterations = 0 /\ ~config.autoRestart
    /\ ~simulation.running
    /\ \E i \in 1..Len(parsed) : parsed[i].reset /\ parsed[i].x.k = "undef"

\* every node's x, y is what rescaleX, rescaleY give for its SimulationNode
\* among the SimulationNodes simNodes
CopiedFrom(nodes, simNodes) ==
    LET minmax == MinMax(nodes, simNodes)
    IN  \A i \in WithSim(nodes) :
            LET sn == Deref(nodes[i].sim, simNodes)
            IN  /\ nodes[i].x = Rescale(sn.x, minmax.minX, minmax.maxX)
                /\ nodes[i].y = Rescale(sn.y, minmax.minY, minmax.maxY)

\* C11: every asynchronous tick copies the positions of all SimulationNodes,
\* as the tick left them, through rescaleX, rescaleY into the nodes' x, y and
\* then requests a render, the copy before the render; when the simulation has
\* converged the end handler makes the same copy once more and requests one
\* final render, after the timer has stopped.
C11_TickCopiesThenRenders ==
    [][calls'[1] = "step" =>
        /\ CopiedFrom(parsed', simulation'.nodes)
        /\ copySrc' = [i \in 1..Len(parsed) |-> parsed[i].sim.kind]
        /\ SubSeq(calls', 2, 4) = <<"tick", "copy", "render">>
        /\ IF Converged(simulation')
           THEN /\ ~simulation'.running
                /\ SubSeq(calls', 5, Len(calls')) = <<"stop", "copy", "render">>
           ELSE /\ simulation'.running
                /\ Len(calls') = 4]_vars

\* C11: the tick that let the simulation converge copied two nodes to the two
\* ends of an axis and rendered twice
C11_Witness ==
    /\ LastHandler = "step"
    /\ Converged(simulation)
    /\ Count("render", calls) = 2
    /\ \E i, j \in WithSim(parsed) : parsed[i].x = Num(-1) /\ parsed[j].x = Num(1)

C13_ReLayoutOnlyRestarts ==
    [][calls'[1] = "reLayout" =>
        /\ simulation'.alpha = AlphaSteps
        /\ simulation'.running
        /\ simulation'.nodes = simulation.nodes
        /\ simulation'.links = simulation.links
        /\ simulation'.forces = simulation.forces
        /\ parsed' = parsed
        /\ parsedEdges' = parsedEdges]_vars

\* C13: reLayout restarted the simulation on nodes whose positions a copy had
\* written
C13_Witness ==
    /\ LastHandler = "reLayout"
    /\ simulation.running /\ simulation.alpha = AlphaSteps
    /\ Len(simulation.nodes) > 1
    /\ \E i \in WithSim(parsed) : parsed[i].x = Num(1)

\* C14: stopLayout can be called in every state; it leaves the timer stopped
\* and changes neither a node nor a SimulationNode, nor alpha, links or
\* forces; a second stopLayout right after the first changes nothing at all.
C14_StopIsIdempotent ==
    /\ [](ENABLED StopLayout)
    /\ [][calls'[1] = "stopLayout" =>
            /\ ~simulation'.running
            /\ parsed' = parsed
            /\ parsedEdges' = parsedEdges
            /\ simulation' = [simulation EXCEPT !.running = FALSE]]_vars
    /\ [](LastHandler = "stopLayout" =>
            /\ StopLayoutSim(simulation) = simulation
            /\ SuperLayoutHook(parsed) = parsed)

\* C14: stopLayout was called on a simulation that had converged, with the
\* last positions copied
C14_Witness ==
    /\ LastHandler = "stopLayout"
    /\ Converged(simulation)
    /\ Len(simulation.nodes) > 1
    /\ \E i \in WithSim(parsed) : parsed[i].y = Num(-1)

\* the nodes of the hierarchy under this._cachedMeta.root
InHierarchy == DOMAIN root.nodes

\* a layout has run: resyncLayout stored a root
LaidOut == root # NoRoot

\* C15: after a layout, every node of the hierarchy whose raw output is the
\* depth coordinate root.nodes[i].y and the breadth coordinate root.nodes[i].x
\* has, in the horizontal orientation, x = depth - 1 and y = -breadth + 1 and,
\* in the vertical orientation, x = breadth - 1 and y = -depth + 1
C15_OrientationMapping ==
    LaidOut =>
        \A i \in InHierarchy :
            LET depthCoord == root.nodes[i].y
                breadthCoord == root.nodes[i].x
                node == parsed[i + 1]
            IN  /\ tree.orientation = "horizontal" =>
                    /\ node.x = Sub(depthCoord, Num(1))
                    /\ node.y = Add(Sub(Num(0), breadthCoord), Num(1))
                /\ tree.orientation = "vertical" =>
                    /\ node.x = Sub(breadthCoord, Num(1))
                    /\ node.y = Add(Sub(Num(0), depthCoord), Num(1))

\* a reLayout made the orientation vertical for a hierarchy in which a node's
\* depth and breadth coordinates differ
C15_Witness ==
    /\ LaidOut
    /\ LastHandler = "reLayout"
    /\ tree.orientation = "vertical"
    /\ \E i \in InHierarchy : root.nodes[i].x # root.nodes[i].y

\* C16 as stated: in the radial orientation the node with depth coordinate 0
\* has the angle undefined, and every other node its breadth coordinate
C16_AsStated ==
    LaidOut /\ tree.orientation = "radial" =>
        \A i \in InHierarchy :
            parsed[i + 1].angle = IF root.nodes[i].y = Num(0) THEN Undef
                                  ELSE root.nodes[i].x

\* C16, amended: in the radial orientation the node with depth coordinate 0,
\* which is the root and no other node, has the angle NaN, and every other
\* node of the hierarchy has its breadth coordinate as angle
C16_RadialAngle ==
    LaidOut /\ tree.orientation = "radial" =>
        \A i \in InHierarchy :
            /\ root.nodes[i].y = Num(0) <=> i = root.index
            /\ parsed[i + 1].angle = IF root.nodes[i].y = Num(0) THEN NaN
                                     ELSE root.nodes[i].x

\* a radial layout of a hierarchy with a root and at least two more nodes
C16_Witness ==
    /\ LaidOut
    /\ tree.orientation = "radial"
    /\ Cardinality(InHierarchy) >= 3
    /\ IsNaN(parsed[root.index + 1].angle)
    /\ \E i \in InHierarchy : parsed[i + 1].angle.k = "pi"

\* a number within [0, hi]
Within(v, hi) == v.k = "num" /\ 0 <= v.n /\ v.n <= hi * v.d

\* an angle within [0, 2 pi)
IsAngle(v) == v = Num(0) \/ (v.k = "pi" /\ 0 < v.n /\ v.n < 2 * v.d)

\* a coordinate within [-1, 1]: a number, or a cosine or a sine times a radius
\* within [0, 1]
InUnitSquare(v) ==
    \/ InUnit(v)
    \/ v.k \in {"cos", "sin"} /\ IsAngle(v.angle) /\ Within(v.r, 1)

\* C17: after a layout in any mode and orientation every node of the hierarchy
\* has x and y within [-1, 1]; on the 2 x 2 canvas the depth and the breadth
\* coordinate lie within [0, 2], in the radial orientation the radius lies
\* within [0, 1]
C17_LayoutInUnitSquare ==
    LaidOut =>
        \A i \in InHierarchy :
            /\ InUnitSquare(parsed[i + 1].x)
            /\ InUnitSquare(parsed[i + 1].y)
            /\ IF tree.orientation = "radial"
               THEN IsAngle(root.nodes[i].x) /\ Within(root.nodes[i].y, 1)
               ELSE Within(root.nodes[i].x, 2) /\ Within(root.nodes[i].y, 2)

\* a radial layout with a node on the unit circle and a node within it
C17_Witness ==
    /\ LaidOut
    /\ tree.orientation = "radial"
    /\ \E i, j \in InHierarchy :
          /\ root.nodes[i].y = Num(1)
          /\ parsed[i + 1].x.k = "cos"
          /\ Less(Num(0), root.nodes[j].y) /\ Less(root.nodes[j].y, Num(1))

\* the hierarchy is a root with one child
TwoNodeChain == LaidOut /\ Cardinality(InHierarchy) = 2

\* the child of the root of a two-node hierarchy
ChildOfRoot == root.nodes[root.index].children[1]

\* the layout ran in the horizontal orientation, named or fallen back to
IsHorizontal == tree.orientation \notin {"vertical", "radial"} \cup InheritedKeys

\* C18 as stated: for a two-node hierarchy in the horizontal orientation the
\* root has the raw output depth 0, breadth 1 and is written as (-1, -1), the
\* child has the raw output depth 1, breadth 1 and is written as (1, -1)
C18_AsStated ==
    TwoNodeChain /\ IsHorizontal =>
        /\ root.nodes[root.index].y = Num(0) /\ root.nodes[root.index].x = Num(1)
        /\ parsed[root.index + 1].x = Num(-1) /\ parsed[root.index + 1].y = Num(-1)
        /\ root.nodes[ChildOfRoot].y = Num(1) /\ root.nodes[ChildOfRoot].x = Num(1)
        /\ parsed[ChildOfRoot + 1].x = Num(1) /\ parsed[ChildOfRoot + 1].y = Num(-1)

\* C18, amended: for a two-node hierarchy in the horizontal orientation the
\* root has the raw output depth 0, breadth 1 and is written as (-1, 0), the
\* child has the raw output depth 2, breadth 1 and is written as (1, 0)
C18_TwoNodeChain ==
    TwoNodeChain /\ IsHorizontal =>
        /\ root.nodes[root.index].y = Num(0) /\ root.nodes[root.index].x = Num(1)
        /\ parsed[root.index + 1].x = Num(-1) /\ parsed[root.index + 1].y = Num(0)
        /\ root.nodes[ChildOfRoot].y = Num(2) /\ root.nodes[ChildOfRoot].x = Num(1)
        /\ parsed[ChildOfRoot + 1].x = Num(1) /\ parsed[ChildOfRoot + 1].y = Num(0)

\* a two-node hierarchy laid out horizontally by cluster()
C18_Witness ==
    /\ TwoNodeChain
    /\ tree.orientation = "horizontal"
    /\ tree.mode = "dendogram"
    /\ LastHandler = "resyncLayout"

\* the sequences that hold the elements of seq in any order
Reorderings(seq) ==
    LET n == Len(seq)
    IN  { [i \in 1..n |-> seq[f[i]]] :
            f \in { g \in [1..n -> 1..n] : \A i, j \in 1..n : g[i] = g[j] => i = j } }

\* the children of every node of the hierarchy h, in their order
SiblingOrder(h) == [i \in DOMAIN h.nodes |-> h.nodes[i].children]

\* C19: in the hierarchy resyncLayout builds, of two children of a node that
\* follow each other the first has the greater height or, at equal heights,
\* the greater index; a resyncLayout of the same nodes and edges, the edges in
\* any order, gives the same order of the children
C19_SiblingsOrdered ==
    LaidOut =>
        /\ \A i \in InHierarchy :
              LET children == root.nodes[i].children
              IN  \A j \in 1..(Len(children) - 1) :
                      LET a == children[j]
                          b == children[j + 1]
                      IN  \/ root.nodes[a].height > root.nodes[b].height
                          \/ /\ root.nodes[a].height = root.nodes[b].height
                             /\ a > b
        /\ \A edges \in Reorderings(parsedEdges) :
              SiblingOrder(BuildRoot(parsed, edges)) = SiblingOrder(root)

\* a resyncLayout built a hierarchy in which a node has a higher child before
\* a child with a greater index
C19_Witness ==
    /\ LaidOut
    /\ LastHandler = "resyncLayout"
    /\ \E i \in InHierarchy :
          LET children == root.nodes[i].children
          IN  /\ Len(children) = 2
              /\ root.nodes[children[1]].height > root.nodes[children[2]].height
              /\ children[1] < children[2]

\* the shape of the hierarchy h: everything but the layout's x and y
Structure(h) ==
    [index |-> h.index,
     nodes |-> [i \in DOMAIN h.nodes |->
                  [children |-> h.nodes[i].children, parent |-> h.nodes[i].parent,
                   depth |-> h.nodes[i].depth, height |-> h.nodes[i].height,
                   value |-> h.nodes[i].value]]]

\* C20: a reLayout leaves the parsed edges and the shape of the stored
\* hierarchy as they are; for some newOptions it leaves this._config.tree and
\* the dataset's tree options merged with them (or, with no newOptions, as
\* they were); and after a resyncLayout stored a root, the root and the parsed
\* nodes it leaves are those a resyncLayout with the merged options gives on
\* the same nodes and edges
C20_ReLayoutIsResyncWithMergedOptions ==
    [][LastHandler' = "reLayout" =>
        /\ parsedEdges' = parsedEdges
        /\ \E newOptions \in NewOptions :
              IF newOptions.defined
              THEN /\ tree' = Assign(tree, newOptions)
                   /\ dsTree' = IF dsTree.defined THEN Assign(dsTree, newOptions)
                                ELSE newOptions
              ELSE tree' = tree /\ dsTree' = dsTree
        /\ LaidOut =>
              LET resync == DoLayout(tree', BuildRoot(parsed, parsedEdges), parsed)
              IN  /\ Structure(root') = Structure(root)
                  /\ root' = resync.root
                  /\ parsed' = SuperLayoutHook(resync.parsed)]_vars

\* a reLayout changed the options of a laid out hierarchy of at least three
\* nodes to the tidy tree in the radial orientation, the dataset's tree
\* options holding both keys
C20_Witness ==
    /\ LaidOut
    /\ LastHandler = "reLayout"
    /\ Cardinality(InHierarchy) >= 3
    /\ tree = [defined |-> TRUE, mode |-> "tree", orientation |-> "radial"]
    /\ dsTree = tree

\* x and y of node i hold what orientation.* writes: numbers, or a cosine and a
\* sine times the radius
Written(node) ==
    /\ node.x.k \in {"num", "cos", "sin"}
    /\ node.y.k \in {"num", "cos", "sin"}

\* C21: a resyncLayout or reLayout whose doLayout ran leaves x and y of every
\* node of the hierarchy written and exactly one more animation frame
\* callback waiting than before; the render (this.chart.update()) runs only in
\* such a callback, a step of its own after the handler, which writes no
\* coordinate; and whenever a callback waits, the coordinates of the layout
\* that asked for it are written
C21_OneRenderAfterLayout ==
    /\ [][LastHandler' \in {"resyncLayout", "reLayout"}
            /\ calls'[Len(calls')] = "requestAnimationFrame" =>
            /\ pendingFrames' = pendingFrames + 1
            /\ Count("update", calls') = 0
            /\ \A i \in DOMAIN root'.nodes : Written(parsed'[i + 1])]_vars
    /\ [][Count("update", calls') > 0 =>
            /\ LastHandler' = "animationFrame"
            /\ pendingFrames > 0
            /\ pendingFrames' = pendingFrames - 1
            /\ parsed' = parsed /\ root' = root]_vars
    /\ [](pendingFrames > 0 =>
            LaidOut /\ \A i \in InHierarchy : Written(parsed[i + 1]))

\* the render of a layout ran in its callback: the coordinates of at least
\* three nodes are written and no callback waits any more
C21_Witness ==
    /\ LastHandler = "animationFrame"
    /\ pendingFrames = 0
    /\ LaidOut
    /\ Cardinality(InHierarchy) >= 3
    /\ \A i \in InHierarchy : Written(parsed[i + 1])

\* the raw coordinates of the nodes on an axis, and the copied ones
RawOn(axis) == { IF axis = "x" THEN simulation.nodes[i].x ELSE simulation.nodes[i].y :
                    i \in 1..Len(simulation.nodes) }
CopiedOn(axis) == { IF axis = "x" THEN parsed[i].x ELSE parsed[i].y :
                    i \in 1..Len(parsed) }

Symmetric == {Num(-1), Num(0), Num(1)}

\* C22: a position copy of nodes whose raw coordinates on an axis are
\* {-1, 0, 1} leaves every node on that axis where its SimulationNode is: the
\* copied coordinates are {-1, 0, 1} again
C22_NormalizerIdempotent ==
    LastHandler = "_copyPosition" =>
        /\ RawOn("x") = Symmetric =>
              /\ CopiedOn("x") = Symmetric
              /\ \A i \in 1..Len(parsed) : parsed[i].x = simulation.nodes[i].x
        /\ RawOn("y") = Symmetric =>
              /\ CopiedOn("y") = Symmetric
              /\ \A i \in 1..Len(parsed) : parsed[i].y = simulation.nodes[i].y

\* the copy ran on three nodes at x = -1, 0 and 1 that share their y
C22_Witness ==
    /\ LastHandler = "_copyPosition"
    /\ Len(parsed) = 3
    /\ RawOn("x") = Symmetric
    /\ CopiedOn("x") = Symmetric
    /\ Cardinality(RawOn("y")) = 1

\* resyncLayout, resetLayout, reLayout or stopLayout ran last
Interrupted ==
    LastHandler \in {"resyncLayout", "resetLayout", "reLayout", "stopLayout"}

\* the step in which alpha fell below alphaMin has run: tick, copy and render,
\* then stop and the end handler's copy and render
Ended ==
    /\ ~simulation.running
    /\ calls = <<"step", "tick", "copy", "render", "stop", "copy", "render">>

\* C23: once the simulation runs and steps, either resyncLayout, resetLayout,
\* reLayout or stopLayout is called or the step comes in which the simulation
\* converges: it stops and the end handler copies and renders once more; a
\* step ticks only while the simulation runs, so none does after the end
\* until a handler restarts the simulation; while the simulation runs a step
\* can be taken
C23_SteppingEnds ==
    /\ (simulation.running /\ ~Interrupted) ~> (Ended \/ Interrupted)
    /\ [](simulation.running <=> CanStep)
    /\ [][LastHandler' = "step" => simulation.running]_vars
    /\ [](Ended => ~ENABLED Step)

\* the simulation converged after a step that did not end it
C23_Witness ==
    /\ Ended
    /\ AlphaSteps >= 2
    /\ \E i \in 1..Len(parsed) : parsed[i].sim.kind = "cur"

\* C24: with autoRestart false, a resyncLayout or resetLayout called while
\* the simulation is not stepping leaves it not stepping (the constructor
\* stops the simulation, so only reLayout starts it)
C24_SteppingOnlyByReLayout ==
    [][/\ ~config.autoRestart
       /\ ~simulation.running
       /\ LastHandler' \in {"resyncLayout", "resetLayout"}
       => ~simulation'.running]_vars

\* node i's _sim is element i of the simulation's current node array, which
\* has one element per node, and that element's index is i
SimOfCurrentArray ==
    /\ Len(simulation.nodes) = Len(parsed)
    /\ \A i \in 1..Len(parsed) :
          /\ parsed[i].sim = Ref("cur", i - 1)
          /\ Deref(parsed[i].sim, simulation.nodes) = simulation.nodes[i]
          /\ simulation.nodes[i].index = i - 1

\* C25: resyncLayout and resetLayout leave every node with a _sim that is the
\* element of the simulation's current node array at the node's place, with
\* the node's index; it stays so under every handler, and a position copy
\* done while it is so reads the current array's SimulationNodes only
C25_SimIsCurrentGeneration ==
    /\ [][LastHandler' \in {"resyncLayout", "resetLayout"} => SimOfCurrentArray']_vars
    /\ [][SimOfCurrentArray => SimOfCurrentArray']_vars
    /\ [](SimOfCurrentArray /\ Copied => \A i \in 1..Len(copySrc) : copySrc[i] = "cur")

\* a step copied positions for as many nodes as a dataset can have, each from
\* the element of the current node array at its place
C25_Witness ==
    /\ LastHandler = "step"
    /\ Copied
    /\ Len(parsed) = MaxNodes
    /\ SimOfCurrentArray
    /\ \A i \in 1..Len(parsed) : parsed[i].x.k = "num"

\* C26: after a layout with an orientation that is none of horizontal,
\* vertical and radial the hierarchy is laid out on the 2 x 2 canvas as with
\* the horizontal orientation and every node is written by the horizontal
\* mapping; with a mode that is not tree the hierarchy is placed by cluster();
\* and with any option values every node of the hierarchy has x and y written
C26_OptionFallbacks ==
    LaidOut =>
        /\ tree.orientation \notin Orientations =>
              /\ LayoutSize(tree) = <<Num(2), Num(2)>>
              /\ root = Layout([tree EXCEPT !.orientation = "horizontal"], root)
              /\ \A i \in InHierarchy :
                    /\ parsed[i + 1].x = Sub(root.nodes[i].y, Num(1))
                    /\ parsed[i + 1].y = Add(Sub(Num(0), root.nodes[i].x), Num(1))
        /\ tree.mode # "tree" =>
              root = Cluster(root, LayoutSize(tree)[1], LayoutSize(tree)[2])
        /\ \A i \in InHierarchy : Written(parsed[i + 1])

=============================================================================
